---- MODULE Spec2Model ----
(***************************************************************************)
(* Model of the MBO -> MBP-10 orderbook reconstruction engine              *)
(* (Orderbook / OrderbookSide of src/src/orderbook.cpp and its header).    *)
(*                                                                         *)
(* Unsigned 32-bit quantities (size_t, order_count) are kept as their      *)
(* two's-complement representative: a value v < 2^31 is the integer v, a   *)
(* value 2^32 - k (the result of wrapping below zero) is the integer -k.   *)
(* Addition and subtraction modulo 2^32 are then plain + and - on the      *)
(* representatives, and the unsigned order is Geq32 below.                 *)
(***************************************************************************)
EXTENDS Integers, FiniteSets, Sequences, TLC

\* the Orderbook object
VARIABLES bid_side_, ask_side_, pending_trades_, stats_

\* main and OrderbookProcessor::process_file: whether the two files can be
\* opened, where main stands, its exit code, the lines getline has returned
\* so far, the chunk being collected, the formatted rows not yet cleared,
\* the data rows written to the output file, and the calls of process_file
\* made after the first one
VARIABLES files, main_pc, exit_code, buffer_size_, input, lines,
          processed_records_, output, file_calls

\* the callers of process_mbo_record and get_stats on other threads: the
\* copy of the statistics a caller holds between load and store, the calls
\* that have returned, the values get_stats has returned, and the tuples
\* handed to stats_.store so far
VARIABLES current_stats, calls_returned, reads, stored

\* a ThreadPool: where its owner stands (not constructed, alive, in the
\* destructor, destroyed), the position of each worker and the task it holds,
\* the queue, the stop flag, and for each accepted task the number of times
\* it has run
VARIABLES pool_pc, workers_, tasks_, stop_, ran

book_vars == <<bid_side_, ask_side_, pending_trades_, stats_>>

file_vars ==
    <<files, main_pc, exit_code, buffer_size_, input, lines,
      processed_records_, output, file_calls>>

thread_vars == <<current_stats, calls_returned, reads, stored>>

pool_vars == <<pool_pc, workers_, tasks_, stop_, ran>>

vars == <<book_vars, file_vars, thread_vars, pool_vars>>

(***************************************************************************)
(* Bounds of the model.                                                    *)
(***************************************************************************)
MaxPrice == 2
MaxSize == 2
MaxOrderId == 2
MaxEvents == 2
MaxLevels == 11
MaxLines == 3
MaxBuffer == 2
MaxMs == 1
MaxFiles == 2
MaxWorkers == 2
MaxTasks == 3
MaxThreads == 2
MaxCalls == 3
MaxReads == 2

(***************************************************************************)
(* Program constants and input domains.                                    *)
(***************************************************************************)
MAX_DEPTH == 10

ADD == "A"
CANCEL == "C"
TRADE == "T"
FILL == "F"
CLEAR == "R"
Actions == {ADD, CANCEL, TRADE, FILL, CLEAR}

BID == "B"
ASK == "A"
NEUTRAL == "N"
Sides == {BID, ASK, NEUTRAL}

Prices == 1..MaxPrice
Sizes == 0..MaxSize
OrderIds == 1..MaxOrderId
SequenceNos == {0, 1}
Timestamps == {1, 2}

\* The input records.  An add carries a positive size; every other event may
\* carry size 0.  The fields no handler reads are held fixed: a fill is read
\* for its order_id and size only, a clear for its sequence number only
\* (the number that marks the initial clear).  ts_event is copied into the
\* pending-trade entry by a trade and never read again, so the streams carry
\* one value of it and the properties about it range over Timestamps.
MBORecord ==
    [action : {ADD}, side : Sides, price : Prices, size : Sizes \ {0},
     order_id : OrderIds, sequence : {1}, ts_event : {1}]
    \cup
    [action : {CANCEL, TRADE}, side : Sides, price : Prices,
     size : Sizes, order_id : OrderIds, sequence : {1}, ts_event : {1}]
    \cup
    [action : {FILL}, side : {NEUTRAL}, price : {1},
     size : Sizes, order_id : OrderIds, sequence : {1}, ts_event : {1}]
    \cup
    [action : {CLEAR}, side : Sides, price : {1}, size : {0},
     order_id : {1}, sequence : SequenceNos, ts_event : {1}]

(***************************************************************************)
(* uint32 arithmetic on two's-complement representatives.                  *)
(***************************************************************************)
Add32(a, b) == a + b

Sub32(a, b) == a - b

Geq32(a, b) ==
    IF (a < 0) = (b < 0) THEN a >= b ELSE a < 0

Min32(a, b) == IF Geq32(a, b) THEN b ELSE a

(***************************************************************************)
(* Types of the header.                                                    *)
(***************************************************************************)
PriceLevel(p, s, c) == [price |-> p, size |-> s, count |-> c]

EmptySlot == PriceLevel(0, 0, 0)

OrderbookPriceLevel ==
    [price |-> 0, total_size |-> 0, order_count |-> 0, orders |-> <<>>]

PerformanceStats ==
    [records_processed |-> 0, trades_processed |-> 0,
     orders_added |-> 0, orders_cancelled |-> 0]

OrderbookSide == [levels_ |-> <<>>, order_lookup_ |-> <<>>]

\* removal of one key of a map
Erase(m, k) == [x \in (DOMAIN m) \ {k} |-> m[x]]

\* insertion or overwrite of one key of a map
Put(m, k, v) == [x \in (DOMAIN m) \cup {k} |-> IF x = k THEN v ELSE m[x]]

(***************************************************************************)
(* OrderbookSide                                                           *)
(***************************************************************************)
\* std::less<price_t> in the place of std::greater<price_t>
LevelBeforeAscending(a, b) == a < b

\* the key order of levels_: std::greater<price_t>, for both sides
LevelBefore(a, b) == a > b

\* a remove_level_if_empty that never erases
remove_level_never(levels, price) == levels

remove_level_if_empty(levels, price) ==
    IF price \in DOMAIN levels /\ levels[price].total_size = 0
    THEN Erase(levels, price)
    ELSE levels

\* a variant whose add starts the level afresh instead of accumulating
update_level_replacing(levels, price, order_id, size, is_add) ==
    LET found == IF price \in DOMAIN levels THEN levels[price]
                 ELSE OrderbookPriceLevel
        level == [found EXCEPT !.price = price]
        added == [level EXCEPT
                     !.total_size = size,
                     !.order_count = 1,
                     !.orders = Put(<<>>, order_id, size)]
        total == Sub32(level.total_size,
                       Min32(level.orders[order_id], size))
        removed == [level EXCEPT
                       !.total_size = total,
                       !.orders = Erase(level.orders, order_id),
                       !.order_count = IF total = 0 THEN 0
                                       ELSE Sub32(level.order_count, 1)]
        after == IF is_add THEN added
                 ELSE IF order_id \in DOMAIN level.orders THEN removed
                 ELSE level
    IN  remove_level_if_empty(Put(levels, price, after), price)

update_level(levels, price, order_id, size, is_add) ==
    LET found == IF price \in DOMAIN levels THEN levels[price]
                 ELSE OrderbookPriceLevel
        level == [found EXCEPT !.price = price]
        added == [level EXCEPT
                     !.total_size = Add32(level.total_size, size),
                     !.order_count = Add32(level.order_count, 1),
                     !.orders = Put(level.orders, order_id, size)]
        total == Sub32(level.total_size,
                       Min32(level.orders[order_id], size))
        removed == [level EXCEPT
                       !.total_size = total,
                       !.orders = Erase(level.orders, order_id),
                       !.order_count = IF total = 0 THEN 0
                                       ELSE Sub32(level.order_count, 1)]
        after == IF is_add THEN added
                 ELSE IF order_id \in DOMAIN level.orders THEN removed
                 ELSE level
    IN  remove_level_if_empty(Put(levels, price, after), price)

update_order_lookup(lookup, order_id, price, size, is_add) ==
    IF is_add
    THEN Put(lookup, order_id, [price |-> price, size |-> size])
    ELSE IF order_id \in DOMAIN lookup
         THEN IF Geq32(size, lookup[order_id].size)
              THEN Erase(lookup, order_id)
              ELSE [lookup EXCEPT ![order_id].size = Sub32(@, size)]
         ELSE lookup

\* a variant that refuses an order_id already in the index
add_order_rejecting(sd, order_id, price, size) ==
    IF order_id \in DOMAIN sd.order_lookup_ THEN sd
    ELSE [levels_ |->
              update_level(sd.levels_, price, order_id, size, TRUE),
          order_lookup_ |->
              update_order_lookup(sd.order_lookup_, order_id, price, size,
                                  TRUE)]

add_order(sd, order_id, price, size) ==
    [levels_ |-> update_level(sd.levels_, price, order_id, size, TRUE),
     order_lookup_ |->
         update_order_lookup(sd.order_lookup_, order_id, price, size, TRUE)]

cancel_order(sd, order_id, price, size) ==
    [levels_ |-> update_level(sd.levels_, price, order_id, size, FALSE),
     order_lookup_ |->
         update_order_lookup(sd.order_lookup_, order_id, price, size, FALSE)]

trade_order(sd, order_id, price, size) ==
    IF order_id \in DOMAIN sd.order_lookup_
    THEN LET order_price == sd.order_lookup_[order_id].price
             order_size == sd.order_lookup_[order_id].size
             amount == IF Geq32(size, order_size) THEN order_size ELSE size
         IN  [levels_ |-> update_level(sd.levels_, order_price, order_id,
                                       amount, FALSE),
              order_lookup_ |->
                  update_order_lookup(sd.order_lookup_, order_id,
                                      order_price, amount, FALSE)]
    ELSE sd

RECURSIVE IterationOrder(_)
\* the keys of levels_ in the order a range-for visits them
IterationOrder(S) ==
    IF S = {} THEN <<>>
    ELSE LET first == CHOOSE p \in S : \A q \in S \ {p} : LevelBefore(p, q)
         IN  <<first>> \o IterationOrder(S \ {first})

\* a variant that starts filling at slot 1
get_top_levels_skipping(sd) ==
    LET keys == IterationOrder(DOMAIN sd.levels_)
    IN  [index \in 0..(MAX_DEPTH - 1) |->
            IF 0 < index /\ index <= Len(keys)
            THEN PriceLevel(keys[index],
                            sd.levels_[keys[index]].total_size,
                            sd.levels_[keys[index]].order_count)
            ELSE EmptySlot]

get_top_levels(sd) ==
    LET keys == IterationOrder(DOMAIN sd.levels_)
    IN  [index \in 0..(MAX_DEPTH - 1) |->
            IF index < Len(keys)
            THEN PriceLevel(keys[index + 1],
                            sd.levels_[keys[index + 1]].total_size,
                            sd.levels_[keys[index + 1]].order_count)
            ELSE EmptySlot]

(***************************************************************************)
(* Orderbook                                                               *)
(***************************************************************************)
handle_add_order(ob, record) ==
    IF record.side = BID
    THEN [ob EXCEPT !.bid_side_ = add_order(@, record.order_id,
                                            record.price, record.size)]
    ELSE IF record.side = ASK
    THEN [ob EXCEPT !.ask_side_ = add_order(@, record.order_id,
                                            record.price, record.size)]
    ELSE ob

\* a variant that cancels the order_id on both sides
handle_cancel_order_both(ob, record) ==
    IF record.side \in {BID, ASK}
    THEN [ob EXCEPT
             !.bid_side_ = cancel_order(@, record.order_id, record.price,
                                        record.size),
             !.ask_side_ = cancel_order(@, record.order_id, record.price,
                                        record.size)]
    ELSE ob

handle_cancel_order(ob, record) ==
    IF record.side = BID
    THEN [ob EXCEPT !.bid_side_ = cancel_order(@, record.order_id,
                                               record.price, record.size)]
    ELSE IF record.side = ASK
    THEN [ob EXCEPT !.ask_side_ = cancel_order(@, record.order_id,
                                               record.price, record.size)]
    ELSE ob

\* a variant that inserts a pending entry only when the order_id has none
handle_trade_sequence_keeping(ob, record) ==
    IF record.action = TRADE /\ record.order_id \in DOMAIN ob.pending_trades_
    THEN ob
    ELSE IF record.action = TRADE
    THEN [ob EXCEPT !.pending_trades_ =
             Put(@, record.order_id,
                 [order_id |-> record.order_id, side |-> record.side,
                  price |-> record.price,
                  remaining_size |-> record.size,
                  timestamp |-> record.ts_event])]
    ELSE IF record.action = FILL
    THEN IF record.order_id \in DOMAIN ob.pending_trades_
         THEN [ob EXCEPT !.pending_trades_[record.order_id].remaining_size =
                             Sub32(@, record.size)]
         ELSE ob
    ELSE IF record.action = CANCEL
    THEN IF record.order_id \in DOMAIN ob.pending_trades_
         THEN LET seq == ob.pending_trades_[record.order_id]
                  opposite_side == IF seq.side = BID THEN ASK ELSE BID
                  traded ==
                      IF opposite_side = BID
                      THEN [ob EXCEPT !.bid_side_ =
                               trade_order(@, record.order_id, seq.price,
                                           seq.remaining_size)]
                      ELSE [ob EXCEPT !.ask_side_ =
                               trade_order(@, record.order_id, seq.price,
                                           seq.remaining_size)]
              IN  [traded EXCEPT !.pending_trades_ =
                      Erase(@, record.order_id)]
         ELSE ob
    ELSE ob

\* a variant whose TRADE consumes the resting order at once
handle_trade_sequence_consuming(ob, record) ==
    IF record.action = TRADE
    THEN [ob EXCEPT !.pending_trades_ =
             Put(@, record.order_id,
                 [order_id |-> record.order_id, side |-> record.side,
                  price |-> record.price,
                  remaining_size |-> record.size,
                  timestamp |-> record.ts_event]),
             !.bid_side_ =
                 IF record.side = ASK
                 THEN trade_order(@, record.order_id, record.price,
                                  record.size)
                 ELSE @,
             !.ask_side_ =
                 IF record.side = BID
                 THEN trade_order(@, record.order_id, record.price,
                                  record.size)
                 ELSE @]
    ELSE IF record.action = FILL
    THEN IF record.order_id \in DOMAIN ob.pending_trades_
         THEN [ob EXCEPT !.pending_trades_[record.order_id].remaining_size =
                             Sub32(@, record.size)]
         ELSE ob
    ELSE ob

handle_trade_sequence(ob, record) ==
    IF record.action = TRADE
    THEN [ob EXCEPT !.pending_trades_ =
             Put(@, record.order_id,
                 [order_id |-> record.order_id, side |-> record.side,
                  price |-> record.price,
                  remaining_size |-> record.size,
                  timestamp |-> record.ts_event])]
    ELSE IF record.action = FILL
    THEN IF record.order_id \in DOMAIN ob.pending_trades_
         THEN [ob EXCEPT !.pending_trades_[record.order_id].remaining_size =
                             Sub32(@, record.size)]
         ELSE ob
    ELSE IF record.action = CANCEL
    THEN IF record.order_id \in DOMAIN ob.pending_trades_
         THEN LET seq == ob.pending_trades_[record.order_id]
                  opposite_side == IF seq.side = BID THEN ASK ELSE BID
                  traded ==
                      IF opposite_side = BID
                      THEN [ob EXCEPT !.bid_side_ =
                               trade_order(@, record.order_id, seq.price,
                                           seq.remaining_size)]
                      ELSE [ob EXCEPT !.ask_side_ =
                               trade_order(@, record.order_id, seq.price,
                                           seq.remaining_size)]
              IN  [traded EXCEPT !.pending_trades_ =
                      Erase(@, record.order_id)]
         ELSE ob
    ELSE ob

\* a variant that counts into a fresh PerformanceStats instead of the
\* loaded one
update_stats_fresh(ob, record) ==
    [ob EXCEPT !.stats_ =
        [records_processed |-> 1,
         trades_processed |-> IF record.action = TRADE THEN 1 ELSE 0,
         orders_added |-> IF record.action = ADD THEN 1 ELSE 0,
         orders_cancelled |-> IF record.action = CANCEL THEN 1 ELSE 0]]

\* a variant that counts a fill as a trade
update_stats_counting_fills(ob, record) ==
    [ob EXCEPT !.stats_ =
        [records_processed |-> @.records_processed + 1,
         trades_processed |-> @.trades_processed
                              + (IF record.action \in {TRADE, FILL}
                                 THEN 1 ELSE 0),
         orders_added |-> @.orders_added
                          + (IF record.action = ADD THEN 1 ELSE 0),
         orders_cancelled |-> @.orders_cancelled
                              + (IF record.action = CANCEL THEN 1 ELSE 0)]]

update_stats(ob, record) ==
    [ob EXCEPT !.stats_ =
        [records_processed |-> @.records_processed + 1,
         trades_processed |-> @.trades_processed
                              + (IF record.action = TRADE THEN 1 ELSE 0),
         orders_added |-> @.orders_added
                          + (IF record.action = ADD THEN 1 ELSE 0),
         orders_cancelled |-> @.orders_cancelled
                              + (IF record.action = CANCEL THEN 1 ELSE 0)]]

\* a variant that takes the initial clear as an order to empty the book
process_mbo_record_clearing(ob, record) ==
    IF record.action = CLEAR /\ record.sequence = 0
    THEN [ob EXCEPT !.bid_side_ = OrderbookSide,
                    !.ask_side_ = OrderbookSide,
                    !.pending_trades_ = <<>>]
    ELSE LET handled ==
                 IF record.action = ADD THEN handle_add_order(ob, record)
                 ELSE IF record.action = CANCEL
                 THEN handle_cancel_order(ob, record)
                 ELSE IF record.action \in {TRADE, FILL}
                 THEN handle_trade_sequence(ob, record)
                 ELSE ob
         IN  update_stats(handled, record)

\* a variant that hands a CANCEL whose order_id has a pending-trade entry
\* to handle_trade_sequence
process_mbo_record_routing(ob, record) ==
    IF record.action = CLEAR /\ record.sequence = 0
    THEN ob
    ELSE LET handled ==
                 IF record.action = ADD THEN handle_add_order(ob, record)
                 ELSE IF record.action = CANCEL
                 THEN IF record.order_id \in DOMAIN ob.pending_trades_
                      THEN handle_trade_sequence(ob, record)
                      ELSE handle_cancel_order(ob, record)
                 ELSE IF record.action \in {TRADE, FILL}
                 THEN handle_trade_sequence(ob, record)
                 ELSE ob
         IN  update_stats(handled, record)

process_mbo_record(ob, record) ==
    IF record.action = CLEAR /\ record.sequence = 0
    THEN ob
    ELSE LET handled ==
                 IF record.action = ADD THEN handle_add_order(ob, record)
                 ELSE IF record.action = CANCEL
                 THEN handle_cancel_order(ob, record)
                 ELSE IF record.action \in {TRADE, FILL}
                 THEN handle_trade_sequence(ob, record)
                 ELSE ob
         IN  update_stats(handled, record)

generate_mbp_record(ob, record) ==
    [action |-> record.action, side |-> record.side, depth |-> 0,
     price |-> record.price, size |-> record.size,
     sequence |-> record.sequence, order_id |-> record.order_id,
     bid_levels |-> get_top_levels(ob.bid_side_),
     ask_levels |-> get_top_levels(ob.ask_side_)]

(***************************************************************************)
(* The state machine: one Orderbook driven by a stream of MBO records.     *)
(***************************************************************************)
\* the Orderbook object as one value
Book ==
    [bid_side_ |-> bid_side_, ask_side_ |-> ask_side_,
     pending_trades_ |-> pending_trades_, stats_ |-> stats_]

\* the Orderbook after construction
InitBook ==
    /\ bid_side_ = OrderbookSide
    /\ ask_side_ = OrderbookSide
    /\ pending_trades_ = <<>>
    /\ stats_ = PerformanceStats

\* main not started, the processor after construction
InitFile ==
    /\ files = [input |-> TRUE, output |-> TRUE]
    /\ main_pc = "start"
    /\ exit_code = 0
    /\ buffer_size_ = 1
    /\ input = <<>>
    /\ lines = <<>>
    /\ processed_records_ = <<>>
    /\ output = <<>>
    /\ file_calls = 0

\* no caller on another thread
InitThreads ==
    /\ current_stats = <<>>
    /\ calls_returned = 0
    /\ reads = <<>>
    /\ stored = {PerformanceStats}

\* no ThreadPool
InitPool ==
    /\ pool_pc = "none"
    /\ workers_ = <<>>
    /\ tasks_ = <<>>
    /\ stop_ = FALSE
    /\ ran = <<>>

Init == InitBook /\ InitFile /\ InitThreads /\ InitPool

\* the streams are cut off after MaxEvents counted records
MoreEvents == stats_.records_processed < MaxEvents

\* one call of Orderbook::process_mbo_record
Process(record) ==
    /\ \E ob \in {process_mbo_record(Book, record)} :
           /\ bid_side_' = ob.bid_side_
           /\ ask_side_' = ob.ask_side_
           /\ pending_trades_' = ob.pending_trades_
           /\ stats_' = ob.stats_
    /\ UNCHANGED <<file_vars, thread_vars, pool_vars>>

AddEvent ==
    /\ MoreEvents
    /\ \E record \in MBORecord : record.action = ADD /\ Process(record)

CancelEvent ==
    /\ MoreEvents
    /\ \E record \in MBORecord : record.action = CANCEL /\ Process(record)

TradeEvent ==
    /\ MoreEvents
    /\ \E record \in MBORecord : record.action = TRADE /\ Process(record)

FillEvent ==
    /\ MoreEvents
    /\ \E record \in MBORecord : record.action = FILL /\ Process(record)

ClearEvent ==
    /\ MoreEvents
    /\ \E record \in MBORecord : record.action = CLEAR /\ Process(record)

Next == AddEvent \/ CancelEvent \/ TradeEvent \/ FillEvent \/ ClearEvent

Spec == Init /\ [][Next]_vars

\* The streams of add and cancel events only.  No other event reaches a side
\* book: TRADE and FILL go to handle_trade_sequence, which touches the sides
\* only in its CANCEL branch, and process_mbo_record never routes a CANCEL
\* there.
NextBook == AddEvent \/ CancelEvent

SpecBook == Init /\ [][NextBook]_vars

\* The streams of trade and fill events only: the events that write the
\* pending-trade table.
NextTrade == TradeEvent \/ FillEvent

SpecTrade == Init /\ [][NextTrade]_vars

\* The streams that fill the two sides and the pending-trade table: adds and
\* cancels that name the bid or the ask side, and ask-side trades of size 1
\* at price 1.
AddOnSide ==
    /\ MoreEvents
    /\ \E record \in MBORecord :
           /\ record.action = ADD
           /\ record.side \in {BID, ASK}
           /\ Process(record)

CancelOnSide ==
    /\ MoreEvents
    /\ \E record \in MBORecord :
           /\ record.action = CANCEL
           /\ record.side \in {BID, ASK}
           /\ Process(record)

TradeOnSide ==
    /\ MoreEvents
    /\ \E record \in MBORecord :
           /\ record.action = TRADE
           /\ record.side = ASK
           /\ record.price = 1
           /\ record.size = 1
           /\ Process(record)

NextSides == AddOnSide \/ CancelOnSide \/ TradeOnSide

SpecSides == Init /\ [][NextSides]_vars

(***************************************************************************)
(* Observations used by the properties.                                    *)
(***************************************************************************)
\* the depth arrays do not depend on the record handed to
\* generate_mbp_record, so any record serves to take the snapshot
ProbeRecord ==
    [action |-> ADD, side |-> BID, price |-> 1, size |-> 0, order_id |-> 1,
     sequence |-> 1, ts_event |-> 1]

Snapshot(ob) == generate_mbp_record(ob, ProbeRecord)

\* slots 0..i of a depth array all hold a level
FilledUpTo(levels, i) == \A j \in 0..i : levels[j] # EmptySlot

SideOf(ob, side) == IF side = BID THEN ob.bid_side_ ELSE ob.ask_side_

Opposite(side) == IF side = BID THEN ASK ELSE BID

\* aggregated size of the level at price p, 0 when there is no such level
AggregatedSize(sd, p) ==
    IF p \in DOMAIN sd.levels_ THEN sd.levels_[p].total_size ELSE 0

\* order_count of the level at price p, 0 when there is no such level
OrderCount(sd, p) ==
    IF p \in DOMAIN sd.levels_ THEN sd.levels_[p].order_count ELSE 0

\* the levels of two sides agree at every price but p
SameLevelsBut(sd, after, p) ==
    \A q \in Prices \ {p} :
        /\ q \in DOMAIN after.levels_ <=> q \in DOMAIN sd.levels_
        /\ q \in DOMAIN sd.levels_ => after.levels_[q] = sd.levels_[q]

RECURSIVE SumSizes(_)
SumSizes(orders) ==
    IF DOMAIN orders = {} THEN 0
    ELSE LET k == CHOOSE x \in DOMAIN orders : TRUE
         IN  orders[k] + SumSizes(Erase(orders, k))

Event(action, side, price, size, order_id) ==
    [action |-> action, side |-> side, price |-> price, size |-> size,
     order_id |-> order_id, sequence |-> 1, ts_event |-> 1]

\* an order resting on a side: indexed, and a member of the level at its
\* recorded price with the recorded size
Resting(sd, order_id) ==
    /\ order_id \in DOMAIN sd.order_lookup_
    /\ sd.order_lookup_[order_id].price \in DOMAIN sd.levels_
    /\ order_id \in DOMAIN sd.levels_[sd.order_lookup_[order_id].price].orders
    /\ sd.levels_[sd.order_lookup_[order_id].price].orders[order_id]
           = sd.order_lookup_[order_id].size

\* The streams that build one side of the book level by level, one order of
\* size 1 per level with the price as its order_id: the books of up to
\* MaxLevels levels, more than a depth array has slots.
LevelPrices == 1..MaxLevels

AddLevel(side) ==
    \E p \in LevelPrices :
        /\ SideOf(Book, Opposite(side)) = OrderbookSide
        /\ p \notin DOMAIN SideOf(Book, side).levels_
        /\ Process(Event(ADD, side, p, 1, p))

AddBidLevel == AddLevel(BID)

AddAskLevel == AddLevel(ASK)

NextLevels == AddBidLevel \/ AddAskLevel

SpecLevels == Init /\ [][NextLevels]_vars

(***************************************************************************)
(* C1: in every reachable state the bid_levels array of the generated MBP  *)
(* record lists prices in strictly descending order from slot 0 up to the  *)
(* first empty slot.                                                       *)
(***************************************************************************)
C1_BidsStrictlyDescending ==
    LET bids == Snapshot(Book).bid_levels
    IN  \A i \in 0..(MAX_DEPTH - 2) :
            FilledUpTo(bids, i + 1) => bids[i].price > bids[i + 1].price

\* the bid side holds at least two levels
C1_Witness ==
    /\ Cardinality(DOMAIN bid_side_.levels_) >= 2
    /\ FilledUpTo(Snapshot(Book).bid_levels, 1)

(***************************************************************************)
(* C2: in every reachable state the ask_levels array of the generated MBP  *)
(* record lists prices in strictly ascending order from slot 0 up to the   *)
(* first empty slot, so ask_levels[0] is the lowest ask price.             *)
(***************************************************************************)
C2_AsksStrictlyAscending ==
    LET asks == Snapshot(Book).ask_levels
    IN  \A i \in 0..(MAX_DEPTH - 2) :
            FilledUpTo(asks, i + 1) => asks[i].price < asks[i + 1].price

(***************************************************************************)
(* C3: for an order resting with size r at price p on side R, a T event    *)
(* of the opposite side with price p and size s for that order_id followed *)
(* directly by its C event reduces the aggregated size of the level at p   *)
(* on side R by exactly min(s, r) and leaves the aggressor side unchanged. *)
(***************************************************************************)
C3_TradeCancelConsumesResting ==
    \A R \in {BID, ASK}, id \in OrderIds, s \in Sizes :
        Resting(SideOf(Book, R), id) =>
            LET sd == SideOf(Book, R)
                p == sd.order_lookup_[id].price
                r == sd.order_lookup_[id].size
                A == Opposite(R)
                after == process_mbo_record(
                             process_mbo_record(Book,
                                                Event(TRADE, A, p, s, id)),
                             Event(CANCEL, A, p, s, id))
            IN  /\ AggregatedSize(SideOf(after, R), p)
                       = AggregatedSize(sd, p) - Min32(s, r)
                /\ SideOf(after, A) = SideOf(Book, A)

(***************************************************************************)
(* C4: for an order resting with size r on side R, a complete T, F, C      *)
(* sequence of the opposite side on its order_id removes from the resting  *)
(* order the F size clipped to r.                                          *)
(***************************************************************************)
C4_FillSumConsumed ==
    \A R \in {BID, ASK}, id \in OrderIds, t \in Sizes, f \in Sizes :
        Resting(SideOf(Book, R), id) =>
            LET sd == SideOf(Book, R)
                p == sd.order_lookup_[id].price
                r == sd.order_lookup_[id].size
                A == Opposite(R)
                afterT == process_mbo_record(Book, Event(TRADE, A, p, t, id))
                afterF == process_mbo_record(afterT, Event(FILL, A, p, f, id))
                afterC == process_mbo_record(afterF,
                                             Event(CANCEL, A, p, f, id))
                left == IF id \in DOMAIN SideOf(afterC, R).order_lookup_
                        THEN SideOf(afterC, R).order_lookup_[id].size
                        ELSE 0
            IN  /\ left = r - Min32(f, r)
                /\ AggregatedSize(SideOf(afterC, R), p)
                       = AggregatedSize(sd, p) - Min32(f, r)

(***************************************************************************)
(* C5: in every reachable state, for each side and each order_id in the    *)
(* side's order index with recorded (price p, size s), the level at p      *)
(* exists and its member map holds that order_id with size s.              *)
(***************************************************************************)
C5_IndexedOrdersAreMembers ==
    \A S \in {BID, ASK} :
        \A id \in DOMAIN SideOf(Book, S).order_lookup_ :
            Resting(SideOf(Book, S), id)

(***************************************************************************)
(* C6: in every reachable state, every order_id that is a member of a      *)
(* price level of a side is in that side's order index with the level's    *)
(* price.                                                                  *)
(***************************************************************************)
C6_MembersAreIndexed ==
    \A S \in {BID, ASK} :
        LET sd == SideOf(Book, S)
        IN  \A p \in DOMAIN sd.levels_ :
                \A id \in DOMAIN sd.levels_[p].orders :
                    /\ id \in DOMAIN sd.order_lookup_
                    /\ sd.order_lookup_[id].price = p

(***************************************************************************)
(* C7: in every reachable state, every price level has total_size equal    *)
(* to the sum of the sizes of its member orders, and at least 1.           *)
(***************************************************************************)
C7_TotalSizeIsMemberSum ==
    \A S \in {BID, ASK} :
        LET sd == SideOf(Book, S)
        IN  \A p \in DOMAIN sd.levels_ :
                /\ sd.levels_[p].total_size = SumSizes(sd.levels_[p].orders)
                /\ sd.levels_[p].total_size >= 1

(***************************************************************************)
(* C8: in every reachable state, every price level has order_count equal   *)
(* to the number of entries of its member map, and at least 1.             *)
(***************************************************************************)
C8_OrderCountIsMemberCount ==
    \A S \in {BID, ASK} :
        LET sd == SideOf(Book, S)
        IN  \A p \in DOMAIN sd.levels_ :
                /\ sd.levels_[p].order_count
                       = Cardinality(DOMAIN sd.levels_[p].orders)
                /\ sd.levels_[p].order_count >= 1

(***************************************************************************)
(* C9: in every reachable state, for an order_id not in the index of the   *)
(* event's side, an add followed by a cancel with the same side, order_id, *)
(* price and size yields depth arrays on both sides equal to those before  *)
(* the add; on a book without levels both arrays are all (0,0,0).          *)
(***************************************************************************)
AddThenCancel(ob, side, id, p, s) ==
    process_mbo_record(process_mbo_record(ob, Event(ADD, side, p, s, id)),
                       Event(CANCEL, side, p, s, id))

AllSentinel(levels) == \A i \in 0..(MAX_DEPTH - 1) : levels[i] = EmptySlot

C9_AddCancelRestoresSnapshot ==
    \A before \in {Snapshot(Book)} :
        \A side \in {BID, ASK}, id \in OrderIds, p \in Prices, s \in Sizes :
            id \notin DOMAIN SideOf(Book, side).order_lookup_
            => \A after \in {Snapshot(AddThenCancel(Book, side, id, p, s))} :
                   /\ after = before
                   /\ (DOMAIN bid_side_.levels_ = {}
                       /\ DOMAIN ask_side_.levels_ = {})
                      => (/\ AllSentinel(after.bid_levels)
                          /\ AllSentinel(after.ask_levels))

\* a book with levels on both sides and an order_id new to a side whose add
\* changes the depth arrays and whose cancel brings them back
C9_Witness ==
    /\ DOMAIN bid_side_.levels_ # {}
    /\ DOMAIN ask_side_.levels_ # {}
    /\ \E side \in {BID, ASK}, id \in OrderIds, p \in Prices,
          s \in Sizes \ {0} :
          /\ id \notin DOMAIN SideOf(Book, side).order_lookup_
          /\ Snapshot(process_mbo_record(Book, Event(ADD, side, p, s, id)))
                 # Snapshot(Book)
          /\ Snapshot(AddThenCancel(Book, side, id, p, s)) = Snapshot(Book)

(***************************************************************************)
(* C10: a cancel with 0 < size < r on an order resting with size r keeps   *)
(* the order a member of its level and in the index with size r - size,    *)
(* lowers the level's aggregated size by exactly that size and leaves the  *)
(* level's order_count unchanged.                                          *)
(***************************************************************************)
C10_PartialCancelKeepsOrder ==
    \A S \in {BID, ASK}, id \in OrderIds, hint \in Sizes :
        (/\ Resting(SideOf(Book, S), id)
         /\ 0 < hint
         /\ hint < SideOf(Book, S).order_lookup_[id].size)
        => LET sd == SideOf(Book, S)
               p == sd.order_lookup_[id].price
               r == sd.order_lookup_[id].size
               after == SideOf(process_mbo_record(
                                   Book, Event(CANCEL, S, p, hint, id)), S)
           IN  /\ Resting(after, id)
               /\ after.order_lookup_[id] = [price |-> p, size |-> r - hint]
               /\ AggregatedSize(after, p) = AggregatedSize(sd, p) - hint
               /\ after.levels_[p].order_count = sd.levels_[p].order_count

(***************************************************************************)
(* C11: a cancel event with size 0 for an order resting with size r is a   *)
(* full cancel: the order leaves the member map of its level and the       *)
(* index, the level's aggregated size drops by r, and the level is erased  *)
(* if the order was its only member.                                       *)
(***************************************************************************)
C11_ZeroSizeCancelIsFull ==
    \A S \in {BID, ASK}, id \in OrderIds :
        Resting(SideOf(Book, S), id)
        => LET sd == SideOf(Book, S)
               p == sd.order_lookup_[id].price
               r == sd.order_lookup_[id].size
               after == SideOf(process_mbo_record(
                                   Book, Event(CANCEL, S, p, 0, id)), S)
           IN  /\ id \notin DOMAIN after.order_lookup_
               /\ p \in DOMAIN after.levels_
                  => id \notin DOMAIN after.levels_[p].orders
               /\ AggregatedSize(after, p) = AggregatedSize(sd, p) - r
               /\ DOMAIN sd.levels_[p].orders = {id}
                  => p \notin DOMAIN after.levels_

(***************************************************************************)
(* C12: for an order indexed with size r at price p, a cancel at p with    *)
(* size >= r lowers the aggregated size of the level at p by exactly r,    *)
(* removes the order from the level's member map and from the index, and   *)
(* leaves an aggregated size that is not negative.                         *)
(***************************************************************************)
C12_FullCancelRemovesExactlyR ==
    \A S \in {BID, ASK}, id \in OrderIds, hint \in Sizes :
        (/\ id \in DOMAIN SideOf(Book, S).order_lookup_
         /\ hint >= SideOf(Book, S).order_lookup_[id].size)
        => LET sd == SideOf(Book, S)
               p == sd.order_lookup_[id].price
               r == sd.order_lookup_[id].size
               after == SideOf(process_mbo_record(
                                   Book, Event(CANCEL, S, p, hint, id)), S)
           IN  /\ AggregatedSize(after, p) = AggregatedSize(sd, p) - r
               /\ AggregatedSize(after, p) >= 0
               /\ id \notin DOMAIN after.order_lookup_
               /\ p \in DOMAIN after.levels_
                  => id \notin DOMAIN after.levels_[p].orders

C14_DuplicateAddOverwrites ==
    \A S \in {BID, ASK}, id \in OrderIds, p \in Prices, s \in Sizes \ {0} :
        Resting(SideOf(Book, S), id)
        => \A sd \in {SideOf(Book, S)} :
           \A after \in {SideOf(process_mbo_record(
                                    Book, Event(ADD, S, p, s, id)), S)} :
               LET p0 == sd.order_lookup_[id].price
                   r0 == sd.order_lookup_[id].size
               IN  /\ after.order_lookup_[id] = [price |-> p, size |-> s]
                   /\ \A q \in DOMAIN after.levels_ :
                          id \in DOMAIN after.levels_[q].orders => q = p
                   /\ \A q \in Prices :
                          /\ AggregatedSize(after, q)
                                 = AggregatedSize(sd, q)
                                   - (IF q = p0 THEN r0 ELSE 0)
                                   + (IF q = p THEN s ELSE 0)
                          /\ OrderCount(after, q)
                                 = OrderCount(sd, q)
                                   - (IF q = p0 THEN 1 ELSE 0)
                                   + (IF q = p THEN 1 ELSE 0)

(***************************************************************************)
(* C15: a cancel event whose order_id is not in the order index of the     *)
(* event's side leaves both sides, levels and indexes, unchanged whatever  *)
(* price and size it carries; no level without members appears at the      *)
(* event's price.                                                          *)
(***************************************************************************)
C15_UnknownCancelIsNoOp ==
    \A S \in {BID, ASK}, id \in OrderIds, p \in Prices, s \in Sizes :
        id \notin DOMAIN SideOf(Book, S).order_lookup_
        => \A after \in {process_mbo_record(Book,
                                            Event(CANCEL, S, p, s, id))} :
               /\ after.bid_side_ = bid_side_
               /\ after.ask_side_ = ask_side_

(***************************************************************************)
(* C16: an add with an order_id not in the index of its side leaves a      *)
(* level at its price whose aggregated size is the earlier one (0 if the   *)
(* level was absent) plus the event size and whose order_count is the      *)
(* earlier one plus 1; every other level of the side is unchanged.         *)
(***************************************************************************)
C16_FreshAddRaisesLevel ==
    \A S \in {BID, ASK}, id \in OrderIds, p \in Prices, s \in Sizes :
        id \notin DOMAIN SideOf(Book, S).order_lookup_
        => \A sd \in {SideOf(Book, S)} :
           \A after \in {SideOf(process_mbo_record(
                                    Book, Event(ADD, S, p, s, id)), S)} :
               /\ p \in DOMAIN after.levels_
               /\ AggregatedSize(after, p) = AggregatedSize(sd, p) + s
               /\ OrderCount(after, p) = OrderCount(sd, p) + 1
               /\ SameLevelsBut(sd, after, p)

(***************************************************************************)
(* C16 restricted to positive sizes: an add with size at least 1 and an    *)
(* order_id not in the index of its side leaves a level at its price whose *)
(* aggregated size is the earlier one (0 if the level was absent) plus the *)
(* event size and whose order_count is the earlier one plus 1; every other *)
(* level of the side is unchanged.                                         *)
(***************************************************************************)
C16_FreshPositiveAddRaisesLevel ==
    \A S \in {BID, ASK}, id \in OrderIds, p \in Prices, s \in Sizes \ {0} :
        id \notin DOMAIN SideOf(Book, S).order_lookup_
        => \A sd \in {SideOf(Book, S)} :
           \A after \in {SideOf(process_mbo_record(
                                    Book, Event(ADD, S, p, s, id)), S)} :
               /\ p \in DOMAIN after.levels_
               /\ AggregatedSize(after, p) = AggregatedSize(sd, p) + s
               /\ OrderCount(after, p) = OrderCount(sd, p) + 1
               /\ SameLevelsBut(sd, after, p)

\* a level holding one order, and an order_id new to the side whose add at
\* that price makes it a level of two orders
C16_Witness ==
    \E S \in {BID, ASK}, id \in OrderIds, p \in Prices, s \in Sizes \ {0} :
        /\ id \notin DOMAIN SideOf(Book, S).order_lookup_
        /\ p \in DOMAIN SideOf(Book, S).levels_
        /\ SideOf(Book, S).levels_[p].order_count = 1
        /\ Cardinality(DOMAIN SideOf(Book, S).levels_[p].orders) = 1
        /\ OrderCount(SideOf(process_mbo_record(
                                 Book, Event(ADD, S, p, s, id)), S), p) = 2

(***************************************************************************)
(* C17: when the only order still indexed at a price is resting there as   *)
(* the last member of the level, a cancel with its side, price and size    *)
(* erases the level: the price is in no slot of the side's depth array     *)
(* any more and the levels behind it have moved up one slot.               *)
(***************************************************************************)
C17_LastFullCancelErasesLevel ==
    \A S \in {BID, ASK}, id \in OrderIds :
        \A sd \in {SideOf(Book, S)} :
            (/\ Resting(sd, id)
             /\ DOMAIN sd.levels_[sd.order_lookup_[id].price].orders = {id}
             /\ \A other \in DOMAIN sd.order_lookup_ \ {id} :
                    sd.order_lookup_[other].price
                        # sd.order_lookup_[id].price)
            => LET p == sd.order_lookup_[id].price
                   r == sd.order_lookup_[id].size
                   after == SideOf(process_mbo_record(
                                       Book, Event(CANCEL, S, p, r, id)), S)
                   was == get_top_levels(sd)
                   now == get_top_levels(after)
               IN  /\ p \notin DOMAIN after.levels_
                   /\ \A i \in 0..(MAX_DEPTH - 1) : now[i].price # p
                   /\ \A i \in 0..(MAX_DEPTH - 1) :
                          (was[i] # EmptySlot /\ was[i].price = p)
                          => /\ \A j \in 0..(i - 1) : now[j] = was[j]
                             /\ \A j \in i..(MAX_DEPTH - 2) :
                                    now[j] = was[j + 1]

(***************************************************************************)
(* C18: a cancel event for an order_id that has a pending-trade entry      *)
(* deletes that entry, and is not applied as a plain cancel to the side    *)
(* its own side field names when the entry points at the other side; a     *)
(* cancel for the only pending order_id leaves the table empty.            *)
(***************************************************************************)
C18_CancelEndsTradeSequence ==
    \A id \in DOMAIN pending_trades_ :
        \A S \in {BID, ASK}, p \in Prices, s \in Sizes :
            \A after \in {process_mbo_record(Book,
                                             Event(CANCEL, S, p, s, id))} :
                /\ id \notin DOMAIN after.pending_trades_
                /\ DOMAIN pending_trades_ = {id}
                   => after.pending_trades_ = <<>>
                /\ pending_trades_[id].side = S
                   => SideOf(after, S) = SideOf(Book, S)

(***************************************************************************)
(* C19: a T event for an order_id that already has a pending-trade entry   *)
(* replaces the entry by the one built from the new T alone: its side,     *)
(* price, size and ts_event, with nothing left of the fills taken off the  *)
(* old entry.  The event is counted as processed like any other, and the   *)
(* entries of the other order ids are untouched.                           *)
(***************************************************************************)
TradeAt(side, price, size, order_id, ts) ==
    [Event(TRADE, side, price, size, order_id) EXCEPT !.ts_event = ts]

C19_TradeReplacesPendingEntry ==
    \A id \in DOMAIN pending_trades_ :
        \A S \in Sides, p \in Prices, s \in Sizes, ts \in Timestamps :
            \A after \in {process_mbo_record(Book,
                                             TradeAt(S, p, s, id, ts))} :
                /\ DOMAIN after.pending_trades_ = DOMAIN pending_trades_
                /\ after.pending_trades_[id]
                       = [order_id |-> id, side |-> S, price |-> p,
                          remaining_size |-> s, timestamp |-> ts]
                /\ \A other \in DOMAIN pending_trades_ \ {id} :
                       after.pending_trades_[other] = pending_trades_[other]
                /\ after.stats_.trades_processed
                       = stats_.trades_processed + 1

\* a pending entry whose remaining_size a fill has wrapped past zero, a
\* value no T event of the stream carries, and a T with another side and
\* ts_event that replaces it
C19_Witness ==
    \E id \in DOMAIN pending_trades_ :
        /\ pending_trades_[id].remaining_size < 0
        /\ \E S \in Sides, p \in Prices, s \in Sizes, ts \in Timestamps :
               /\ ts # pending_trades_[id].timestamp
               /\ S # pending_trades_[id].side
               /\ process_mbo_record(Book, TradeAt(S, p, s, id, ts))
                      .pending_trades_[id].remaining_size = s

(***************************************************************************)
(* C20: an event with action R and sequence 0 leaves both side books and   *)
(* the pending-trade table as they were, and with them the depth arrays;   *)
(* the events that follow it start from the state they would start from    *)
(* without it, the book being all that process_mbo_record reads.           *)
(***************************************************************************)
InitialClears == {r \in MBORecord : r.action = CLEAR /\ r.sequence = 0}

C20_InitialClearIsNoOp ==
    \A clear \in InitialClears :
        \A after \in {process_mbo_record(Book, clear)} :
            /\ after.bid_side_ = bid_side_
            /\ after.ask_side_ = ask_side_
            /\ after.pending_trades_ = pending_trades_
            /\ generate_mbp_record(after, clear).bid_levels
                   = Snapshot(Book).bid_levels
            /\ generate_mbp_record(after, clear).ask_levels
                   = Snapshot(Book).ask_levels

\* a book with a level and a pending trade, which the initial clear leaves
\* in place
C20_Witness ==
    /\ DOMAIN bid_side_.levels_ \cup DOMAIN ask_side_.levels_ # {}
    /\ pending_trades_ # <<>>
    /\ \E clear \in InitialClears :
           /\ clear.side = NEUTRAL
           /\ process_mbo_record(Book, clear).pending_trades_
                  = pending_trades_

(***************************************************************************)
(* C22: in each depth array the levels are a prefix without gaps: with n   *)
(* levels on the side, slots 0..min(n,10)-1 hold n distinct levels of the  *)
(* side, each with its total_size and order_count, and every slot from     *)
(* min(n,10) on holds (0,0,0); a book without levels gives two arrays of   *)
(* (0,0,0) only.                                                           *)
(***************************************************************************)
Min(a, b) == IF a < b THEN a ELSE b

GapFreePrefix(sd, levels) ==
    LET n == Min(Cardinality(DOMAIN sd.levels_), MAX_DEPTH)
    IN  /\ \A i \in 0..(n - 1) :
               /\ levels[i] # EmptySlot
               /\ levels[i].price \in DOMAIN sd.levels_
               /\ levels[i] = PriceLevel(
                                  levels[i].price,
                                  sd.levels_[levels[i].price].total_size,
                                  sd.levels_[levels[i].price].order_count)
               /\ \A j \in 0..(n - 1) :
                      i # j => levels[i].price # levels[j].price
        /\ \A i \in n..(MAX_DEPTH - 1) : levels[i] = EmptySlot

C22_LevelsFormGapFreePrefix ==
    \A snapshot \in {Snapshot(Book)} :
        /\ GapFreePrefix(bid_side_, snapshot.bid_levels)
        /\ GapFreePrefix(ask_side_, snapshot.ask_levels)

\* a side with more levels than the array has slots, and a sentinel-only
\* array for the other side
C22_Witness ==
    /\ Cardinality(DOMAIN ask_side_.levels_) > MAX_DEPTH
    /\ Snapshot(Book).ask_levels[MAX_DEPTH - 1] # EmptySlot
    /\ AllSentinel(Snapshot(Book).bid_levels)

(***************************************************************************)
(* C24: for a bid order resting with size s at price p, a T, an F and a C  *)
(* event that carry the order's id and price and side ASK leave the bid    *)
(* side as it was, so the slot that showed the order's level still shows   *)
(* it with the size and count it had: (p, s, 1) for a level of that order  *)
(* alone.                                                                  *)
(***************************************************************************)
TradeFillCancel(ob, side, id, p, t, f) ==
    process_mbo_record(
        process_mbo_record(
            process_mbo_record(ob, Event(TRADE, side, p, t, id)),
            Event(FILL, side, p, f, id)),
        Event(CANCEL, side, p, f, id))

C25_EventTouchesOwnSideOnly ==
    \A S \in {BID, ASK}, id \in OrderIds, p \in Prices, s \in Sizes :
        \A action \in {ADD, CANCEL} :
            (action = CANCEL => id \notin DOMAIN pending_trades_)
            => \A after \in {process_mbo_record(
                                 Book, Event(action, S, p, s, id))} :
                   /\ SideOf(after, Opposite(S)) = SideOf(Book, Opposite(S))
                   /\ after.pending_trades_ = pending_trades_

\* an order_id resting on both sides whose cancel on one side removes it
\* there and leaves it resting on the other
C25_Witness ==
    \E S \in {BID, ASK}, id \in OrderIds :
        /\ Resting(SideOf(Book, S), id)
        /\ Resting(SideOf(Book, Opposite(S)), id)
        /\ \E after \in {process_mbo_record(
                             Book,
                             Event(CANCEL, S,
                                   SideOf(Book, S).order_lookup_[id].price,
                                   SideOf(Book, S).order_lookup_[id].size,
                                   id))} :
               /\ id \notin DOMAIN SideOf(after, S).order_lookup_
               /\ Resting(SideOf(after, Opposite(S)), id)

(***************************************************************************)
(* C26: from one process_mbo_record call to the next each of               *)
(* records_processed, orders_added, orders_cancelled and trades_processed  *)
(* either keeps its value or grows by exactly 1.                           *)
(***************************************************************************)
Counters ==
    {"records_processed", "orders_added", "orders_cancelled",
     "trades_processed"}

C26_CountersGrowByAtMostOne ==
    [][\A c \in Counters : stats_'[c] \in {stats_[c], stats_[c] + 1}]_vars

\* two calls counted, one of them as a cancel and one as a trade
C26_Witness ==
    /\ stats_.records_processed = 2
    /\ stats_.orders_cancelled = 1
    /\ stats_.trades_processed = 1

(***************************************************************************)
(* CSVParser: the text of an input line and of an output row.              *)
(***************************************************************************)
PRICE_SCALE == 1000000

\* the text of a numeric field: decimal digits with their value, or text
\* without a leading digit (the empty field included)
Digits(n) == [kind |-> "digits", value |-> n]

NoDigits == [kind |-> "text", value |-> 0]

\* the text of a price field: empty, a decimal number with six places, or
\* text that is no number
EmptyPrice == [kind |-> "empty", whole |-> 0, micros |-> 0]

Decimal(whole, micros) ==
    [kind |-> "decimal", whole |-> whole, micros |-> micros]

NoPrice == [kind |-> "text", whole |-> 0, micros |-> 0]

\* an input line: the number of fields the split finds, and the text of the
\* fields the book reads (the timestamps and the other numeric fields are
\* held fixed and well formed)
InputLine(fields, action, side, price, size, order_id, sequence) ==
    [fields |-> fields, action |-> action, side |-> side, price |-> price,
     size |-> size, order_id |-> order_id, sequence |-> sequence]

\* std::stoul and std::stoull: the value, or nothing when they throw
stoul(str) == IF str.kind = "digits" THEN {str.value} ELSE {}

\* the value, or nothing when std::stod throws; the decimals of the model
\* are converted exactly by the double arithmetic of the code
parse_price(str) ==
    IF str.kind = "empty" THEN {0}
    ELSE IF str.kind = "decimal"
    THEN {str.whole * PRICE_SCALE + str.micros}
    ELSE {}

parse_action(action) ==
    CASE action = "A" -> ADD
      [] action = "C" -> CANCEL
      [] action = "T" -> TRADE
      [] action = "F" -> FILL
      [] action = "R" -> CLEAR
      [] OTHER -> ADD

parse_side(side) ==
    CASE side = "B" -> BID
      [] side = "A" -> ASK
      [] side = "N" -> NEUTRAL
      [] OTHER -> NEUTRAL

\* the optional record: a set with the record, or the empty set (nullopt)
parse_mbo_line(line) ==
    IF line.fields = 0 THEN {}
    ELSE IF line.fields # 15 THEN {}
    ELSE IF \/ parse_price(line.price) = {}
            \/ stoul(line.size) = {}
            \/ stoul(line.order_id) = {}
            \/ stoul(line.sequence) = {}
    THEN {}
    ELSE {[action |-> parse_action(line.action),
           side |-> parse_side(line.side),
           price |-> CHOOSE p \in parse_price(line.price) : TRUE,
           size |-> CHOOSE s \in stoul(line.size) : TRUE,
           order_id |-> CHOOSE i \in stoul(line.order_id) : TRUE,
           sequence |-> CHOOSE q \in stoul(line.sequence) : TRUE,
           ts_event |-> 1]}

format_price(price) == Decimal(price \div PRICE_SCALE, price % PRICE_SCALE)

\* the columns of an output row
format_mbp_record(record) ==
    [action |-> record.action, side |-> record.side, depth |-> record.depth,
     price |-> format_price(record.price), size |-> record.size,
     sequence |-> record.sequence,
     bid_levels |->
         [i \in 0..(MAX_DEPTH - 1) |->
             [px |-> format_price(record.bid_levels[i].price),
              sz |-> record.bid_levels[i].size,
              ct |-> record.bid_levels[i].count]],
     ask_levels |->
         [i \in 0..(MAX_DEPTH - 1) |->
             [px |-> format_price(record.ask_levels[i].price),
              sz |-> record.ask_levels[i].size,
              ct |-> record.ask_levels[i].count]],
     order_id |-> record.order_id]

(***************************************************************************)
(* OrderbookProcessor and main.                                            *)
(***************************************************************************)
\* a variant whose snapshot counts as a processed record
call_generate_mbp_record_counting(ob, record) ==
    [orderbook_ |-> update_stats(ob, record),
     mbp_record |-> generate_mbp_record(ob, record)]

\* the call orderbook_.generate_mbp_record(record): the object after the
\* call and the value returned
call_generate_mbp_record(ob, record) ==
    [orderbook_ |-> ob, mbp_record |-> generate_mbp_record(ob, record)]

\* the orderbook and the vector of formatted rows after the loop over chunk
RECURSIVE process_chunk(_, _, _)
process_chunk(ob, records, chunk) ==
    IF chunk = <<>>
    THEN [orderbook_ |-> ob, processed_records_ |-> records]
    ELSE LET mbo_record == parse_mbo_line(Head(chunk))
         IN  IF mbo_record = {}
             THEN process_chunk(ob, records, Tail(chunk))
             ELSE LET record == CHOOSE r \in mbo_record : TRUE
                      called == call_generate_mbp_record(
                                    process_mbo_record(ob, record), record)
                  IN  process_chunk(
                          called.orderbook_,
                          Append(records,
                                 format_mbp_record(called.mbp_record)),
                          Tail(chunk))

\* the lines the input file may hold
DriverLines ==
    {InputLine(15, "A", "B", Decimal(0, 1), Digits(1), Digits(1), Digits(1)),
     InputLine(15, "A", "A", Decimal(0, 2), Digits(1), Digits(2), Digits(1)),
     InputLine(15, "C", "B", Decimal(0, 1), Digits(1), Digits(1), Digits(1)),
     InputLine(15, "R", "N", EmptyPrice, Digits(0), Digits(0), Digits(0)),
     InputLine(15, "R", "N", EmptyPrice, Digits(0), Digits(0), Digits(1)),
     InputLine(15, "T", "A", Decimal(0, 1), Digits(1), Digits(1), Digits(1)),
     InputLine(15, "F", "A", Decimal(0, 1), Digits(1), Digits(1), Digits(1)),
     InputLine(14, "A", "B", Decimal(0, 2), Digits(1), Digits(2), Digits(1)),
     InputLine(15, "A", "B", Decimal(0, 2), NoDigits, Digits(2), Digits(1)),
     InputLine(15, "X", "B", Decimal(0, 2), Digits(1), Digits(2), Digits(1)),
     InputLine(15, "A", "Z", Decimal(0, 2), Digits(1), Digits(2), Digits(1))}

\* the outcomes of line_count * 1000 / processing_time.count(): the division
\* by zero of a run shorter than a millisecond is undefined, it traps or
\* yields some value
RecordsPerSecond(ms) ==
    IF ms = 0 THEN {"trap", "value"} ELSE {"value"}

\* main up to the first statements of process_file: both files are opened,
\* a failure throws and main returns 1
StartMain ==
    /\ main_pc = "start"
    /\ \E opened \in [input : BOOLEAN, output : BOOLEAN] :
           /\ files' = opened
           /\ IF opened.input /\ opened.output
              THEN /\ main_pc' = "reading"
                   /\ exit_code' = exit_code
              ELSE /\ main_pc' = "returned"
                   /\ exit_code' = 1
    /\ \E size \in 1..MaxBuffer : buffer_size_' = size
    /\ UNCHANGED <<book_vars, input, lines, processed_records_, output,
                   file_calls, thread_vars, pool_vars>>

\* one turn of the getline loop, the input holding lines of one set
ReadLineFrom(file_lines) ==
    /\ main_pc = "reading"
    /\ Len(input) < MaxLines
    /\ \E line \in file_lines :
           /\ input' = Append(input, line)
           /\ IF Len(lines) + 1 >= buffer_size_
              THEN \E done \in {process_chunk(Book, processed_records_,
                                              Append(lines, line))} :
                       /\ bid_side_' = done.orderbook_.bid_side_
                       /\ ask_side_' = done.orderbook_.ask_side_
                       /\ pending_trades_' = done.orderbook_.pending_trades_
                       /\ stats_' = done.orderbook_.stats_
                       /\ output' = output \o done.processed_records_
                       /\ processed_records_' = <<>>
                       /\ lines' = <<>>
              ELSE /\ lines' = Append(lines, line)
                   /\ UNCHANGED <<book_vars, output, processed_records_>>
    /\ UNCHANGED <<files, main_pc, exit_code, buffer_size_, file_calls,
                   thread_vars, pool_vars>>

ReadLine == ReadLineFrom(DriverLines)

\* the end of the input: the remaining lines, the report of process_file,
\* the report of main
EndOfFile ==
    /\ main_pc = "reading"
    /\ IF lines # <<>>
       THEN \E done \in {process_chunk(Book, processed_records_, lines)} :
                /\ bid_side_' = done.orderbook_.bid_side_
                /\ ask_side_' = done.orderbook_.ask_side_
                /\ pending_trades_' = done.orderbook_.pending_trades_
                /\ stats_' = done.orderbook_.stats_
                /\ output' = output \o done.processed_records_
                /\ processed_records_' = done.processed_records_
       ELSE UNCHANGED <<book_vars, output, processed_records_>>
    /\ lines' = <<>>
    /\ \E ms \in 0..MaxMs :
           \E outcome \in RecordsPerSecond(ms) :
               IF outcome = "trap"
               THEN /\ main_pc' = "signalled"
                    /\ exit_code' = exit_code
               ELSE /\ main_pc' = "returned"
                    /\ exit_code' = 0
    /\ UNCHANGED <<files, buffer_size_, input, file_calls, thread_vars,
                   pool_vars>>

NextFile == StartMain \/ ReadLine \/ EndOfFile

\* A caller that uses the processor for one file after the other.  The lines
\* of its files are well formed.
ShortLines ==
    {InputLine(15, "A", "B", Decimal(0, 1), Digits(1), Digits(1), Digits(1)),
     InputLine(15, "A", "A", Decimal(0, 2), Digits(1), Digits(2), Digits(1))}

ReadShortLine == ReadLineFrom(ShortLines)

\* a further call of process_file after one that returned: both files are
\* opened anew, the output file empty; the processor is the same object
ProcessFileAgain ==
    /\ main_pc = "returned"
    /\ exit_code = 0
    /\ file_calls + 1 < MaxFiles
    /\ file_calls' = file_calls + 1
    /\ main_pc' = "reading"
    /\ input' = <<>>
    /\ lines' = <<>>
    /\ output' = <<>>
    /\ UNCHANGED <<book_vars, files, exit_code, buffer_size_,
                   processed_records_, thread_vars, pool_vars>>

NextAgain == StartMain \/ ReadShortLine \/ EndOfFile \/ ProcessFileAgain

SpecAgain == Init /\ [][NextAgain]_vars

SpecFile == Init /\ [][NextFile]_vars

(***************************************************************************)
(* Claims about the parser, the driver and main.                           *)
(***************************************************************************)
\* a row the specification calls malformed: wrong field count, a numeric
\* field that is no number, an unknown action or side character
Malformed(line) ==
    \/ line.fields # 15
    \/ line.price.kind = "text"
    \/ line.size.kind = "text"
    \/ line.order_id.kind = "text"
    \/ line.sequence.kind = "text"
    \/ line.action \notin Actions
    \/ line.side \notin Sides

\* C29: a row with a field count other than 15, an unparseable numeric
\* field, an action character outside {A,C,T,F,R} or a side character
\* outside {B,A,N} yields no MBORecord, and once the run is over the output
\* holds one row for each of the other lines and none for these.
C29_MalformedRowDropped ==
    /\ \A i \in 1..Len(input) :
           Malformed(input[i]) => parse_mbo_line(input[i]) = {}
    /\ main_pc = "returned" /\ exit_code = 0
           => Len(output)
                  = Cardinality({i \in 1..Len(input) : ~Malformed(input[i])})

\* the Orderbook of a fresh processor
Orderbook ==
    [bid_side_ |-> OrderbookSide, ask_side_ |-> OrderbookSide,
     pending_trades_ |-> <<>>, stats_ |-> PerformanceStats]

\* the rows the input calls for: one for each line that is not malformed, in
\* input order, each with the depth of the book after the events up to it
RECURSIVE RowsOf(_, _)
RowsOf(ob, in) ==
    IF in = <<>> THEN <<>>
    ELSE IF Malformed(Head(in)) \/ parse_mbo_line(Head(in)) = {}
    THEN RowsOf(ob, Tail(in))
    ELSE LET record == CHOOSE r \in parse_mbo_line(Head(in)) : TRUE
             after == process_mbo_record(ob, record)
         IN  <<format_mbp_record(generate_mbp_record(after, record))>>
             \o RowsOf(after, Tail(in))

\* C23: on a fresh processor the output holds exactly one row per
\* well-formed input event, in input order, row n with the depth of the book
\* after events 1..n: while the file is read the rows of the chunks already
\* flushed, at the end the rows of the whole input, whatever the chunk size.
C23_OneRowPerWellFormedEvent ==
    /\ main_pc = "reading"
           => output = RowsOf(Orderbook,
                              SubSeq(input, 1, Len(input) - Len(lines)))
    /\ main_pc = "returned" /\ exit_code = 0
           => output = RowsOf(Orderbook, input)

\* the records the lines of the input parse to
DriverRecords == UNION {parse_mbo_line(line) : line \in DriverLines}

C30_ExitZeroIffFilesOpened ==
    main_pc \in {"returned", "signalled"}
        => /\ main_pc = "returned"
           /\ exit_code = 0 <=> files.input /\ files.output

(***************************************************************************)
(* Several threads on one Orderbook.                                       *)
(***************************************************************************)
Threads == 1..MaxThreads

\* the records the threads pass: they name no side of the book, so that the
\* calls share nothing but the statistics
ThreadRecords ==
    {Event(ADD, NEUTRAL, 1, 1, 1), Event(CANCEL, NEUTRAL, 1, 1, 1)}

\* a variant that reads the counters one after the other, so that a store in
\* progress shows in some of them only
get_stats_fieldwise(ob, in_flight) ==
    IF in_flight = <<>> THEN ob.stats_
    ELSE LET t == CHOOSE u \in DOMAIN in_flight : TRUE
         IN  [ob.stats_ EXCEPT !.records_processed =
                  in_flight[t].stats.records_processed + 1]

\* stats_.load(): the tuple of the last store; the copies the callers in
\* progress hold (in_flight) are not visible before their store
get_stats(ob, in_flight) == ob.stats_

\* process_mbo_record up to the first statement of update_stats: the handler
\* has run and the caller holds a copy of the stored statistics
Load(t) ==
    /\ t \notin DOMAIN current_stats
    /\ calls_returned + Cardinality(DOMAIN current_stats) < MaxCalls
    /\ \E record \in ThreadRecords :
           \E ob \in {process_mbo_record(Book, record)} :
               /\ bid_side_' = ob.bid_side_
               /\ ask_side_' = ob.ask_side_
               /\ pending_trades_' = ob.pending_trades_
               /\ current_stats' =
                      Put(current_stats, t,
                          [stats |-> stats_, record |-> record])
    /\ UNCHANGED <<stats_, calls_returned, reads, stored, file_vars,
                   pool_vars>>

\* the rest of update_stats: the copy is incremented and stored, the call
\* returns
Store(t) ==
    /\ t \in DOMAIN current_stats
    /\ \E ob \in {update_stats([Book EXCEPT !.stats_ = current_stats[t].stats],
                               current_stats[t].record)} :
           /\ stats_' = ob.stats_
           /\ stored' = stored \cup {ob.stats_}
    /\ current_stats' = Erase(current_stats, t)
    /\ calls_returned' = calls_returned + 1
    /\ UNCHANGED <<bid_side_, ask_side_, pending_trades_, reads, file_vars,
                   pool_vars>>

\* a call of get_stats on a thread of its own
GetStats ==
    /\ Len(reads) < MaxReads
    /\ reads' = Append(reads, get_stats(Book, current_stats))
    /\ UNCHANGED <<book_vars, current_stats, calls_returned, stored,
                   file_vars, pool_vars>>

WriterLoad == Load(1)

WriterStore == Store(1)

\* one writer and one reader
NextReader == WriterLoad \/ WriterStore \/ GetStats

SpecReader == Init /\ [][NextReader]_vars

ThreadLoad == \E t \in Threads : Load(t)

ThreadStore == \E t \in Threads : Store(t)

\* several writers and one reader
NextThreads == ThreadLoad \/ ThreadStore \/ GetStats

SpecThreads == Init /\ [][NextThreads]_vars

\* C27: with one writer calling process_mbo_record and a reader calling
\* get_stats at arbitrary points, every value read is a tuple the writer
\* stored (the initial one included), never a partially updated one, and of
\* two reads the later one has no counter below the earlier one.
C27_ReadsAreStoredAndMonotonic ==
    /\ \A i \in 1..Len(reads) : reads[i] \in stored
    /\ \A i, j \in 1..Len(reads) :
           i < j => \A c \in Counters : reads[i][c] <= reads[j][c]

\* the reader has seen two different tuples and reads again while a call of
\* the writer is between its load and its store
C27_Witness ==
    /\ Len(reads) >= 2
    /\ reads[1].records_processed < reads[2].records_processed
    /\ reads[2] = stats_
    /\ current_stats # <<>>

\* C28: when several threads call process_mbo_record on one Orderbook, no
\* update of the statistics is lost: once every call has returned,
\* records_processed is the number of calls made.
C28_NoUpdateLost ==
    current_stats = <<>> => stats_.records_processed = calls_returned

(***************************************************************************)
(* Claims about partial cancels, cancel prices and the depth of deep sides.*)
(***************************************************************************)
\* an add of size a + b followed by a cancel of size a and a cancel of size b
AddThenTwoCancels(ob, side, id, p, a, b) ==
    process_mbo_record(
        process_mbo_record(
            process_mbo_record(ob, Event(ADD, side, p, a + b, id)),
            Event(CANCEL, side, p, a, id)),
        Event(CANCEL, side, p, b, id))

\* C31: an order added and then cancelled by several cancels (same side,
\* order_id and price) whose sizes sum to its size is gone from index and
\* level after the last of them, and the snapshot is the one of the stream
\* without that order.
C31_SplitCancelRemovesOrder ==
    \A side \in {BID, ASK}, id \in OrderIds, p \in Prices :
        \A a \in Sizes \ {0}, b \in Sizes \ {0} :
            (a + b \in Sizes
             /\ id \notin DOMAIN SideOf(Book, side).order_lookup_)
            => \A after \in {AddThenTwoCancels(Book, side, id, p, a, b)} :
                   /\ id \notin DOMAIN SideOf(after, side).order_lookup_
                   /\ \A q \in DOMAIN SideOf(after, side).levels_ :
                          id \notin DOMAIN SideOf(after, side).levels_[q].orders
                   /\ Snapshot(after) = Snapshot(Book)

\* C32: a full-size cancel for an indexed order whose price field differs
\* from the order's recorded price removes the order from the index and from
\* its level and lowers that level's aggregated size by the order's size.
C32_CancelActsAtRecordedPrice ==
    \A S \in {BID, ASK}, id \in OrderIds, p \in Prices :
        \A sd \in {SideOf(Book, S)} :
            (Resting(sd, id) /\ sd.order_lookup_[id].price # p)
            => \A q \in {sd.order_lookup_[id].price} :
               \A s \in {sd.order_lookup_[id].size} :
               \A after \in {SideOf(process_mbo_record(
                                        Book, Event(CANCEL, S, p, s, id)),
                                    S)} :
                   /\ id \notin DOMAIN after.order_lookup_
                   /\ q \in DOMAIN after.levels_
                          => id \notin DOMAIN after.levels_[q].orders
                   /\ AggregatedSize(after, q) = AggregatedSize(sd, q) - s

\* the canonical order of a side: bids from the highest price down, asks
\* from the lowest price up
Better(side, a, b) == IF side = BID THEN a > b ELSE a < b

\* the prices of the MAX_DEPTH best levels of a side
BestPrices(side, sd) ==
    {p \in DOMAIN sd.levels_ :
        Cardinality({q \in DOMAIN sd.levels_ : Better(side, q, p)})
            < MAX_DEPTH}

\* C33: when a side holds more than 10 levels its depth array holds exactly
\* the 10 best-priced levels in canonical order, and an add or a cancel at a
\* price worse than the 10th best level leaves the array unchanged.
C33_DeepSideShowsTenBest ==
    \A S \in {BID, ASK} :
        \A sd \in {SideOf(Book, S)} :
            Cardinality(DOMAIN sd.levels_) > MAX_DEPTH
            => \A levels \in {get_top_levels(sd)} :
                   /\ {levels[i].price : i \in 0..(MAX_DEPTH - 1)}
                          = BestPrices(S, sd)
                   /\ \A i \in 0..(MAX_DEPTH - 2) :
                          Better(S, levels[i].price, levels[i + 1].price)
                   /\ \A p \in LevelPrices \ BestPrices(S, sd) :
                          (\A q \in BestPrices(S, sd) : Better(S, q, p))
                          => /\ get_top_levels(SideOf(
                                    process_mbo_record(
                                        Book,
                                        Event(ADD, S, p, 1, MaxLevels + p)),
                                    S)) = levels
                             /\ get_top_levels(SideOf(
                                    process_mbo_record(
                                        Book, Event(CANCEL, S, p, 1, p)),
                                    S)) = levels

(***************************************************************************)
(* Claims about the trade sequence and the statistics.                     *)
(***************************************************************************)
\* C35: the remaining_size of a pending entry created by a T of size t stays
\* within 0..t after any sequence of F events for its order_id: it never
\* wraps around below zero as an unsigned 32-bit value (a wrapped value is a
\* negative representative here).
C35_RemainingSizeNeverWraps ==
    \A id \in DOMAIN pending_trades_ :
        /\ Geq32(pending_trades_[id].remaining_size, 0)
        /\ Geq32(MaxSize, pending_trades_[id].remaining_size)

\* C34: a TRADE or FILL event never changes a side's levels or order index.
\* A step that counts a trade only creates or replaces the pending entry of
\* one order_id; a step that counts a record and neither an add, a cancel
\* nor a trade (a fill, or a clear that is not the initial one) leaves the
\* pending table as it was or lowers the remaining size of one entry.
C34_TradeAndFillLeaveSides ==
    [][/\ stats_'.trades_processed = stats_.trades_processed + 1
          => /\ bid_side_' = bid_side_
             /\ ask_side_' = ask_side_
             /\ \E id \in OrderIds :
                    /\ id \in DOMAIN pending_trades_'
                    /\ pending_trades_'[id].order_id = id
                    /\ pending_trades_'[id].remaining_size \in Sizes
                    /\ pending_trades_'
                           = Put(pending_trades_, id, pending_trades_'[id])
       /\ (/\ stats_'.records_processed = stats_.records_processed + 1
           /\ stats_'.trades_processed = stats_.trades_processed
           /\ stats_'.orders_added = stats_.orders_added
           /\ stats_'.orders_cancelled = stats_.orders_cancelled)
          => /\ bid_side_' = bid_side_
             /\ ask_side_' = ask_side_
             /\ \/ pending_trades_' = pending_trades_
                \/ \E id \in DOMAIN pending_trades_ :
                       \E size \in Sizes :
                           pending_trades_'
                               = [pending_trades_ EXCEPT
                                      ![id].remaining_size =
                                          Sub32(@, size)]]_vars

\* a trade has been applied for an order that rests on the bid side
C34_Witness ==
    \E id \in DOMAIN pending_trades_ :
        /\ Resting(bid_side_, id)
        /\ pending_trades_[id].side = ASK
        /\ pending_trades_[id].remaining_size > 0
        /\ stats_.trades_processed = 1

\* the records applied so far: those of the lines already handed to
\* process_chunk, in input order
Applied ==
    LET n == Len(input) - Len(lines)
    IN  [i \in {j \in 1..n : parse_mbo_line(input[j]) # {}} |->
            CHOOSE r \in parse_mbo_line(input[i]) : TRUE]

\* the number of applied records with one of the actions
CountOf(actions) ==
    Cardinality({i \in DOMAIN Applied : Applied[i].action \in actions})

AppliedInitialClears ==
    {i \in DOMAIN Applied :
        Applied[i].action = CLEAR /\ Applied[i].sequence = 0}

\* C36: after any event stream records_processed is the number of applied
\* events other than (action R, sequence 0) events, and orders_added,
\* orders_cancelled and trades_processed are the numbers of A, C and T
\* events, whether or not the event changed the book; an F event counts in
\* records_processed only.
C36_CountersCountEvents ==
    /\ stats_.records_processed
           = Cardinality(DOMAIN Applied) - Cardinality(AppliedInitialClears)
    /\ stats_.orders_added = CountOf({ADD})
    /\ stats_.orders_cancelled = CountOf({CANCEL})
    /\ stats_.trades_processed = CountOf({TRADE})

\* an initial clear, a cancel for an unknown order and a fill have been
\* applied
C36_Witness ==
    /\ lines = <<>>
    /\ AppliedInitialClears # {}
    /\ CountOf({FILL}) = 1
    /\ CountOf({CANCEL}) = 1
    /\ stats_.records_processed = 2
    /\ stats_.orders_added = 0
    /\ bid_side_ = OrderbookSide

\* C37: every call of process_file writes exactly one data row per
\* well-formed line of that call's input, also on a processor that has
\* processed a file before: while the call reads, the output holds one row
\* for each well-formed line already handed to process_chunk, and after it
\* one row for each well-formed line of the input.
C37_NoRowWrittenAgain ==
    (main_pc = "reading" \/ (main_pc = "returned" /\ exit_code = 0))
    => Len(output)
           = Cardinality({i \in 1..(Len(input) - Len(lines)) :
                             ~Malformed(input[i])})

(***************************************************************************)
(* ThreadPool.  The statements a thread runs while it holds queue_mutex_   *)
(* are one step.                                                           *)
(***************************************************************************)
\* a worker thread: waiting in condition_.wait, running a task it took from
\* the queue, or returned from its loop
Worker(pc, task) == [pc |-> pc, task |-> task]

\* the constructor: thread_count workers are started
ThreadPool ==
    /\ pool_pc = "none"
    /\ \E thread_count \in 0..MaxWorkers :
           workers_' = [w \in 1..thread_count |-> Worker("waiting", 0)]
    /\ stop_' = FALSE
    /\ pool_pc' = "alive"
    /\ UNCHANGED <<tasks_, ran, book_vars, file_vars, thread_vars>>

\* enqueue on a pool that is not stopped (on a stopped pool it throws and
\* the task is not accepted): the task is pushed, tasks are numbered in the
\* order of acceptance
enqueue ==
    /\ pool_pc \in {"alive", "joining"}
    /\ ~stop_
    /\ Len(ran) < MaxTasks
    /\ tasks_' = Append(tasks_, Len(ran) + 1)
    /\ ran' = Append(ran, 0)
    /\ UNCHANGED <<pool_pc, workers_, stop_, book_vars, file_vars,
                   thread_vars>>

\* a worker leaves the wait with a task in the queue: it pops the front
WorkerTake(w) ==
    /\ workers_[w].pc = "waiting"
    /\ tasks_ # <<>>
    /\ workers_' = [workers_ EXCEPT ![w] = Worker("running", Head(tasks_))]
    /\ tasks_' = Tail(tasks_)
    /\ UNCHANGED <<pool_pc, stop_, ran, book_vars, file_vars, thread_vars>>

\* a worker leaves the wait with stop_ set and the queue empty: it returns
WorkerExit(w) ==
    /\ workers_[w].pc = "waiting"
    /\ stop_ /\ tasks_ = <<>>
    /\ workers_' = [workers_ EXCEPT ![w] = Worker("exited", 0)]
    /\ UNCHANGED <<pool_pc, tasks_, stop_, ran, book_vars, file_vars,
                   thread_vars>>

\* task() outside the lock, then back to the wait
WorkerRun(w) ==
    /\ workers_[w].pc = "running"
    /\ ran' = [ran EXCEPT ![workers_[w].task] = @ + 1]
    /\ workers_' = [workers_ EXCEPT ![w] = Worker("waiting", 0)]
    /\ UNCHANGED <<pool_pc, tasks_, stop_, book_vars, file_vars,
                   thread_vars>>

TakeTask == \E w \in DOMAIN workers_ : WorkerTake(w)

RunTask == \E w \in DOMAIN workers_ : WorkerRun(w)

ExitLoop == \E w \in DOMAIN workers_ : WorkerExit(w)

\* the destructor sets stop_ under the lock and notifies all
DestructorStop ==
    /\ pool_pc = "alive"
    /\ stop_' = TRUE
    /\ pool_pc' = "joining"
    /\ UNCHANGED <<workers_, tasks_, ran, book_vars, file_vars, thread_vars>>

\* the joins of the destructor return once every worker has returned
DestructorJoin ==
    /\ pool_pc = "joining"
    /\ \A w \in DOMAIN workers_ : workers_[w].pc = "exited"
    /\ pool_pc' = "destroyed"
    /\ UNCHANGED <<workers_, tasks_, stop_, ran, book_vars, file_vars,
                   thread_vars>>

NextPool ==
    \/ ThreadPool
    \/ enqueue
    \/ TakeTask
    \/ RunTask
    \/ ExitLoop
    \/ DestructorStop
    \/ DestructorJoin

SpecPool == Init /\ [][NextPool]_vars

\* every accepted task has run at most once so far, once the destructor has
\* returned every accepted task has run exactly once and every worker has
\* exited, and a worker that has exited did so with stop set and the queue
\* empty
TasksRunOnce ==
    /\ \A task \in 1..Len(ran) : ran[task] <= 1
    /\ pool_pc = "destroyed"
           => /\ \A task \in 1..Len(ran) : ran[task] = 1
              /\ \A w \in DOMAIN workers_ : workers_[w].pc = "exited"
    /\ \A w \in DOMAIN workers_ :
           workers_[w].pc = "exited" => stop_ /\ tasks_ = <<>>

\* the same for a pool constructed with at least one worker thread
TasksRunOnceWithWorkers ==
    (pool_pc # "none" /\ DOMAIN workers_ # {}) => TasksRunOnce

\* C38: every task accepted by enqueue is executed exactly once by some
\* worker thread, the destructor returns only after all accepted tasks have
\* run and every worker has exited, and a worker exits only when stop is set
\* and the queue is empty.
C38_AcceptedTasksRunOnce == TasksRunOnce

====
